---- MODULE Spec2Model ----
(***************************************************************************)
(* State-machine model of merge_arrays (include/merge.h), the stable       *)
(* parallel k-way merge of nelimee/KWayMerge.                              *)
(*                                                                         *)
(* One call of merge_arrays is run by an orchestrating thread (variable    *)
(* pc) that spawns OpenMP tasks (variable tasks); a spawned task is run    *)
(* to completion, atomically, at any later moment before the barrier that  *)
(* waits for it.  Without OpenMP every task runs right where it is         *)
(* spawned, which is one of the interleavings.                             *)
(*                                                                         *)
(* Elements are records [v, src, pos]: v is the value the comparator       *)
(* looks at, (src, pos) is the element's origin (input sequence, position) *)
(* and is never read by the program.  Positions in the output are offsets  *)
(* from result.begin(), 0 .. N; an iterator into a container of n entries  *)
(* is an index 1 .. n, n + 1 being end().                                  *)
(***************************************************************************)
EXTENDS Integers, Sequences, FiniteSets, TLC

VARIABLES
    arrays,               \* the k input sequences (merge.h:58)
    comp,                 \* the comparator supplied by the caller (merge.h:59)
    call,                 \* 1: the call on the inputs; 2: the call on <<its result>>
    first,                \* what call 1 returned (<<>> during call 1)
    pc,                   \* position of the orchestrating thread
    result,               \* the output buffer (merge.h:105)
    separators,           \* forward_list of positions in result (merge.h:147)
    last_inserted,        \* iterator into separators (merge.h:149)
    left,                 \* iterator into arrays (merge.h:157)
    right,                \* iterator into arrays (merge.h:158)
    next_free_position,   \* merge.h:163
    tasks,                \* tasks spawned and not yet run
    merging_pass_number,  \* merge.h:199
    i,                    \* pass counter (merge.h:201)
    left_iterator,        \* iterator into separators (merge.h:202)
    middle_iterator,      \* iterator into separators (merge.h:203)
    ub,                   \* TRUE once the call has executed undefined behaviour
    external,             \* the kind of the outer collection (ExternalContainer)
    pass_start            \* the separators and the buffer as the current pass found them

vars == <<arrays, comp, call, first, pc, result, separators, last_inserted, left,
          right, next_free_position, tasks, merging_pass_number, i,
          left_iterator, middle_iterator, ub, external, pass_start>>

----------------------------------------------------------------------------
(* Bounds of the model.                                                    *)

MaxK == 5

MaxN == 3

MaxVal == 2
MaxContainerN == 2

MaxWideK == 8

MaxWideN == 2

Values == 1..MaxVal

Comparators == {"less", "greater"}

----------------------------------------------------------------------------
(* Elements and the comparator.                                            *)

\* T() : the value a freshly allocated result holds at every position.
Default == [v |-> 0, src |-> 0, pos |-> 0]

\* What a read of the memory behind arrays.end() can yield as an element.
Junk == [v |-> 0, src |-> 0, pos |-> 1]

\* The sequences a dereference of an iterator at or past arrays.end() can yield.
Wild == {<<>>, <<Junk>>}

\* comp(a, b): std::less<T> (the default) or a descending order.
Comp(c, a, b) == IF c = "less" THEN a.v < b.v ELSE a.v > b.v

\* std::merge(first1, last1, first2, last2, out, comp): the front of the
\* second range is taken only when it is strictly before the front of the first.
RECURSIVE Merge(_, _, _)
Merge(a, b, c) ==
    IF a = <<>> THEN b
    ELSE IF b = <<>> THEN a
    ELSE IF Comp(c, Head(b), Head(a))
         THEN <<Head(b)>> \o Merge(a, Tail(b), c)
         ELSE <<Head(a)>> \o Merge(Tail(a), b, c)

\* Writing the sequence s into buf from offset off on; a write past the end
\* of buf lands outside the buffer.
WriteAt(buf, off, s) ==
    [j \in 1..Len(buf) |->
        IF j > off /\ j <= off + Len(s) THEN s[j - off] ELSE buf[j]]

\* buf[lo, hi) as a sequence, clipped to the buffer.
Slice(buf, lo, hi) ==
    LET h == IF hi > Len(buf) THEN Len(buf) ELSE hi
    IN  IF h <= lo THEN <<>> ELSE [j \in 1..(h - lo) |-> buf[lo + j]]

copy_all_but_last(s, buf, off) ==
    WriteAt(buf, off, IF s = <<>> THEN s ELSE SubSeq(s, 1, Len(s) - 1))

\* std::copy(s.begin(), s.end(), buf.begin() + off)
copy(s, buf, off) == WriteAt(buf, off, s)

\* std::inplace_merge(lo, mid, hi, comp) on the buffer
inplace_merge(buf, lo, mid, hi, c) ==
    WriteAt(buf, lo, Merge(Slice(buf, lo, mid), Slice(buf, mid, hi), c))

----------------------------------------------------------------------------
(* The constants merge_arrays computes at its start.                       *)

RECURSIVE SumLen(_)
SumLen(arrs) == IF arrs = <<>> THEN 0 ELSE Len(Head(arrs)) + SumLen(Tail(arrs))

number_of_elements_but_last(arrs) ==
    IF arrs = <<>> THEN 0 ELSE SumLen(SubSeq(arrs, 1, Len(arrs) - 1))

\* std::accumulate(arrays.begin(), arrays.end(), 0, add_size)
number_of_elements(arrs) == SumLen(arrs)

\* The kinds of outer collection the tests use (ExternalContainer).
ExternalContainers == {"vector", "deque", "list", "forward_list"}

\* arrays.size(): the stored number of entries
size(arrs) == Len(arrs)

distance_from_second(arrs) ==
    IF arrs = <<>> THEN 0 ELSE Len(Tail(arrs))

\* std::distance(arrays.begin(), arrays.end()) with forward iterators: one
\* step per entry until end() is met
RECURSIVE distance(_)
distance(arrs) == IF arrs = <<>> THEN 0 ELSE 1 + distance(Tail(arrs))

\* arrays.size(), or std::distance(begin, end) for a forward_list
number_of_lists_to_merge(arrs) ==
    IF external = "forward_list" THEN distance(arrs) ELSE size(arrs)

block_number_after_first_round(k) == (k \div 2) + (k % 2)

\* std::size_t is unsigned: its arithmetic is modulo a power of two, 2^64 in
\* the build, here the largest that the integers of the model checker hold.
SizeModulus == 2^30

SizeT(x) == x % SizeModulus

\* block_number_after_first_round - 1 in std::size_t: for k = 0 it wraps to
\* the largest value.
block_separator_number_after_first_round(k) ==
    SizeT(block_number_after_first_round(k) - 1)

\* static_cast<std::size_t>(std::ceil(std::log2(n))) for n >= 1
RECURSIVE CeilLog2From(_, _, _)
CeilLog2From(n, p, pow) == IF pow >= n THEN p ELSE CeilLog2From(n, p + 1, 2 * pow)

FloorLog2(n) == IF n <= 1 THEN 0 ELSE CeilLog2From(n + 1, 0, 1) - 1

CeilLog2(n) == CeilLog2From(n, 0, 1)

\* arrays.end() as an index
End == Len(arrays) + 1

\* *it for an iterator into arrays; w is what the memory holds when it is at
\* or past arrays.end()
At(it, w) == IF it \in 1..Len(arrays) THEN arrays[it] ELSE w

NoTask == {}

PairTask_SameEntry(l, r, w, dst, sep) ==
    [kind |-> "merge", a |-> l, b |-> r, wild |-> w, c |-> dst, d |-> 2]

PairTask_AtStart(l, r, w, dst, sep) ==
    [kind |-> "merge", a |-> l, b |-> r, wild |-> w, c |-> 0, d |-> sep]

PairTask(l, r, w, dst, sep) ==
    [kind |-> "merge", a |-> l, b |-> r, wild |-> w, c |-> dst, d |-> sep]

FuseTask(lo, mid, hi, at) ==
    [kind |-> "fuse", a |-> lo, b |-> mid, wild |-> <<>>, c |-> hi, d |-> at]

----------------------------------------------------------------------------
(* Inputs: k sequences, each sorted under the comparator.                  *)

SortedSeqs(n, c) ==
    UNION { { s \in [1..l -> Values] :
                \A j \in 1..(l - 1) : ~ IF c = "less" THEN s[j + 1] < s[j]
                                                   ELSE s[j + 1] > s[j] }
            : l \in 0..n }

RECURSIVE Inputs(_, _, _)
Inputs(k, n, c) ==
    IF k = 0 THEN {<<>>}
    ELSE UNION { { Append(rest, s) : rest \in Inputs(k - 1, n - Len(s), c) }
                 : s \in SortedSeqs(n, c) }

Tag(raw) ==
    [s \in 1..Len(raw) |->
        [p \in 1..Len(raw[s]) |-> [v |-> raw[s][p], src |-> s, pos |-> p]]]

\* The sequences one behind the other.
RECURSIVE Flatten(_)
Flatten(arrs) == IF arrs = <<>> THEN <<>> ELSE Head(arrs) \o Flatten(Tail(arrs))

\* [1.0, 3.0], [2.0, 2.0, 4.0], [0.5], every value doubled
Scenario == Tag(<< <<2, 6>>, <<4, 4, 8>>, <<1>> >>)

\* No pass has begun.
NoPass == [separators |-> <<>>, result |-> <<>>]

Entry(arrs, c, n, at, output, seps) ==
    /\ arrays = arrs
    /\ comp = c
    /\ call = n
    /\ pc = at
    /\ result = output
    /\ separators = seps
    /\ last_inserted = 0
    /\ left = 0
    /\ right = 0
    /\ next_free_position = 0
    /\ tasks = NoTask
    /\ merging_pass_number = 0
    /\ i = 0
    /\ left_iterator = 0
    /\ middle_iterator = 0
    /\ ub = FALSE
    /\ pass_start = NoPass

\* The state on entry of merge_arrays(arrs, c).
Enter(arrs, c, n) == Entry(arrs, c, n, "start", <<>>, <<>>)

Init ==
    /\ first = <<>>
    /\ external = "vector"
    /\ \/ \E c \in Comparators, k \in 0..MaxK :
            \E raw \in Inputs(k, MaxN, c) : Enter(Tag(raw), c, 1)
       \/ Enter(Scenario, "less", 1)

----------------------------------------------------------------------------
(* merge_arrays, steps 2 to 4: allocation and the simple cases.            *)

\* InternalContainer_t result(number_of_elements)
Allocated == [j \in 1..number_of_elements(arrays) |-> Default]

K == number_of_lists_to_merge(arrays)

\* if(number_of_lists_to_merge == 0) return result;
ReturnEmpty ==
    /\ pc = "start"
    /\ K = 0
    /\ result' = Allocated
    /\ pc' = "done"
    /\ UNCHANGED <<external, pass_start, arrays, comp, call, first, separators, last_inserted, left,
                   right, next_free_position, tasks, merging_pass_number, i,
                   left_iterator, middle_iterator, ub>>

\* std::copy(arrays.front().begin(), arrays.front().end(), result.begin())
CopySingle ==
    /\ pc = "start"
    /\ K = 1
    /\ result' = copy(arrays[1], Allocated, 0)
    /\ pc' = "done"
    /\ UNCHANGED <<external, pass_start, arrays, comp, call, first, separators, last_inserted, left,
                   right, next_free_position, tasks, merging_pass_number, i,
                   left_iterator, middle_iterator, ub>>

\* std::merge(first->begin(), first->end(), second->begin(), second->end(),
\*            result.begin()): no comparator is passed, operator< is used.
MergeTwo ==
    /\ pc = "start"
    /\ K = 2
    /\ result' = WriteAt(Allocated, 0, Merge(arrays[1], arrays[2], "less"))
    /\ pc' = "done"
    /\ UNCHANGED <<external, pass_start, arrays, comp, call, first, separators, last_inserted, left,
                   right, next_free_position, tasks, merging_pass_number, i,
                   left_iterator, middle_iterator, ub>>

\* Steps 5.1 and the declarations of 5.2: separators(2 + block_separator_
\* number_after_first_round, result.begin()), last_inserted, left, right,
\* next_free_position.
BeginFirstRound ==
    /\ pc = "start"
    /\ K >= 3
    /\ result' = Allocated
    /\ separators' =
         [j \in 1..SizeT(2 + block_separator_number_after_first_round(K))
             |-> 0]
    /\ last_inserted' = 1
    /\ left' = 1
    /\ right' = 2
    /\ next_free_position' = 0
    /\ pc' = "first_round"
    /\ UNCHANGED <<external, pass_start, arrays, comp, call, first, tasks, merging_pass_number, i,
                   left_iterator, middle_iterator, ub>>

----------------------------------------------------------------------------
(* Step 5.2: the first round.                                              *)

\* while(left != arrays.end() && right != arrays.end())
FirstRoundCondition == left # End /\ right # End

\* One iteration of the loop.  right is recomputed after the test, so the
\* iteration runs with right == arrays.end() when left is the last sequence:
\* right->size() and, in the task, right->begin() then read behind the
\* collection, and yield some w of Wild.
FirstRoundSpawn ==
    /\ pc = "first_round"
    /\ FirstRoundCondition
    /\ \E w \in (IF left + 1 \in 1..K THEN {<<>>} ELSE Wild) :
         /\ right' = left + 1
         /\ last_inserted' = last_inserted + 1
         /\ tasks' = tasks \cup
              {PairTask(left, left + 1, w, next_free_position, last_inserted + 1)}
         /\ next_free_position' =
              next_free_position + Len(At(left, w)) + Len(At(left + 1, w))
         /\ left' = left + 2
         /\ ub' = (ub \/ left + 1 \notin 1..K)
    /\ UNCHANGED <<external, pass_start, arrays, comp, call, first, pc, result, separators,
                   merging_pass_number, i, left_iterator, middle_iterator>>

RunPairMerge_Neighbour(t) ==
    /\ pc # "crashed"
    /\ t \in tasks
    /\ t.kind = "merge"
    /\ LET out == Merge(At(t.a, t.wild), At(t.b, t.wild), comp)
       IN  /\ result' = WriteAt(result, t.c, out)
           /\ separators' = [separators EXCEPT ![t.d - 1] = t.c + Len(out)]
           /\ ub' = (ub \/ t.c + Len(out) > Len(result))
    /\ tasks' = tasks \ {t}
    /\ UNCHANGED <<external, pass_start, arrays, comp, call, first, pc, last_inserted, left, right,
                   next_free_position, merging_pass_number, i, left_iterator,
                   middle_iterator>>

\* The task body: *last_inserted = std::merge(left, right, result.begin() +
\* next_free_position, comp), with the task's own copies of the four.
RunPairMerge(t) ==
    /\ pc # "crashed"
    /\ t \in tasks
    /\ t.kind = "merge"
    /\ LET out == Merge(At(t.a, t.wild), At(t.b, t.wild), comp)
       IN  /\ result' = WriteAt(result, t.c, out)
           /\ separators' = [separators EXCEPT ![t.d] = t.c + Len(out)]
           /\ ub' = (ub \/ t.c + Len(out) > Len(result))
    /\ tasks' = tasks \ {t}
    /\ UNCHANGED <<external, pass_start, arrays, comp, call, first, pc, last_inserted, left, right,
                   next_free_position, merging_pass_number, i, left_iterator,
                   middle_iterator>>

FirstRoundJoin_NoBarrier ==
    /\ pc = "first_round"
    /\ ~ FirstRoundCondition
    /\ pc' = "tail"
    /\ UNCHANGED <<external, pass_start, arrays, comp, call, first, result, separators, last_inserted,
                   left, right, next_free_position, tasks, merging_pass_number,
                   i, left_iterator, middle_iterator, ub>>

\* The loop ends, and the parallel region ends with its implicit barrier.
FirstRoundJoin ==
    /\ pc = "first_round"
    /\ ~ FirstRoundCondition
    /\ tasks = NoTask
    /\ pc' = "tail"
    /\ UNCHANGED <<external, pass_start, arrays, comp, call, first, result, separators, last_inserted,
                   left, right, next_free_position, tasks, merging_pass_number,
                   i, left_iterator, middle_iterator, ub>>

\* Step 5.3, if(number_of_lists_to_merge % 2): the copy of the last sequence.
\* ++last_inserted may step to separators.end(), and left may be past
\* arrays.end(): the write through end() then lands outside the list, and
\* the read yields some w of Wild.
TailCopy ==
    /\ pc = "tail"
    /\ K % 2 = 1
    /\ \E w \in (IF left \in 1..K THEN {<<>>} ELSE Wild) :
         LET previously_inserted == last_inserted
             dst == separators[previously_inserted]
             src == At(left, w)
         IN  /\ last_inserted' = last_inserted + 1
             /\ result' = copy(src, result, dst)
             /\ separators' =
                  IF last_inserted + 1 \in 1..Len(separators)
                  THEN [separators EXCEPT ![last_inserted + 1] = dst + Len(src)]
                  ELSE separators
             /\ ub' = (ub \/ left \notin 1..K
                          \/ last_inserted + 1 \notin 1..Len(separators)
                          \/ dst + Len(src) > Len(result))
    /\ pc' = "passes"
    /\ UNCHANGED <<external, pass_start, arrays, comp, call, first, left, right, next_free_position,
                   tasks, merging_pass_number, i, left_iterator, middle_iterator>>

SkipTail ==
    /\ pc = "tail"
    /\ K % 2 = 0
    /\ pc' = "passes"
    /\ UNCHANGED <<external, pass_start, arrays, comp, call, first, result, separators, last_inserted,
                   left, right, next_free_position, tasks, merging_pass_number,
                   i, left_iterator, middle_iterator, ub>>

----------------------------------------------------------------------------
(* Step 6: the in-place passes.                                            *)

\* merging_pass_number{ceil(log2(block_separator_number_after_first_round))}
\* and the for loop's i{0}
ComputePassNumber ==
    /\ pc = "passes"
    /\ merging_pass_number' =
         CeilLog2(block_separator_number_after_first_round(K))
    /\ i' = 0
    /\ pc' = "pass_head"
    /\ UNCHANGED <<external, pass_start, arrays, comp, call, first, result, separators, last_inserted,
                   left, right, next_free_position, tasks, left_iterator,
                   middle_iterator, ub>>

erase_at(list, it) ==
    [j \in 1..(Len(list) - 1) |-> IF j < it THEN list[j] ELSE list[j + 1]]

\* separators.erase_after(it)
erase_after(list, it) ==
    [j \in 1..(Len(list) - 1) |-> IF j <= it THEN list[j] ELSE list[j + 1]]

BeginPass_EraseFirst ==
    /\ pc = "pass_head"
    /\ i < merging_pass_number
    /\ left_iterator' = 1
    /\ middle_iterator' = 2
    /\ pass_start' = [separators |-> separators, result |-> result]
    /\ separators' = erase_after(separators, 1)
    /\ pc' = "pass_loop"
    /\ UNCHANGED <<external, arrays, comp, call, first, result, last_inserted,
                   left, right, next_free_position, tasks, merging_pass_number,
                   i, ub>>

\* i < merging_pass_number: left_iterator = separators.begin(),
\* middle_iterator = std::next(left_iterator)
BeginPass ==
    /\ pc = "pass_head"
    /\ i < merging_pass_number
    /\ left_iterator' = 1
    /\ middle_iterator' = 2
    /\ pass_start' = [separators |-> separators, result |-> result]
    /\ pc' = "pass_loop"
    /\ UNCHANGED <<external, arrays, comp, call, first, result, separators, last_inserted,
                   left, right, next_free_position, tasks, merging_pass_number,
                   i, ub>>

\* while(middle_iterator != separators.end() &&
\*       (right_iterator = std::next(middle_iterator)) != separators.end())
PassCondition ==
    /\ middle_iterator # Len(separators) + 1
    /\ middle_iterator + 1 # Len(separators) + 1

\* One iteration: the three positions are copied into a task, the middle
\* separator is erased, the iterators move on.
FuseSpawn ==
    /\ pc = "pass_loop"
    /\ PassCondition
    /\ tasks' = tasks \cup
         {FuseTask(separators[left_iterator], separators[middle_iterator],
                   separators[middle_iterator + 1], left_iterator)}
    /\ separators' = erase_after(separators, left_iterator)
    /\ left_iterator' = left_iterator + 1
    /\ middle_iterator' = left_iterator + 2
    /\ UNCHANGED <<external, pass_start, arrays, comp, call, first, pc, result, last_inserted, left,
                   right, next_free_position, merging_pass_number, i, ub>>

\* The task body: std::inplace_merge(left, middle, right, comp)
RunFusion(t) ==
    /\ pc # "crashed"
    /\ t \in tasks
    /\ t.kind = "fuse"
    /\ result' = inplace_merge(result, t.a, t.b, t.c, comp)
    /\ ub' = (ub \/ t.c > Len(result))
    /\ tasks' = tasks \ {t}
    /\ UNCHANGED <<external, pass_start, arrays, comp, call, first, pc, separators, last_inserted,
                   left, right, next_free_position, merging_pass_number, i,
                   left_iterator, middle_iterator>>

EndPass_NoTaskwait ==
    /\ pc = "pass_loop"
    /\ ~ PassCondition
    /\ i' = i + 1
    /\ pc' = "pass_head"
    /\ UNCHANGED <<external, pass_start, arrays, comp, call, first, result, separators, last_inserted,
                   left, right, next_free_position, tasks, merging_pass_number,
                   left_iterator, middle_iterator, ub>>

\* The while loop ends; #pragma omp taskwait; ++i
EndPass ==
    /\ pc = "pass_loop"
    /\ ~ PassCondition
    /\ tasks = NoTask
    /\ i' = i + 1
    /\ pc' = "pass_head"
    /\ UNCHANGED <<external, pass_start, arrays, comp, call, first, result, separators, last_inserted,
                   left, right, next_free_position, tasks, merging_pass_number,
                   left_iterator, middle_iterator, ub>>

\* The for loop ends, the parallel region ends; return result
Return ==
    /\ pc = "pass_head"
    /\ ~ (i < merging_pass_number)
    /\ tasks = NoTask
    /\ pc' = "done"
    /\ UNCHANGED <<external, pass_start, arrays, comp, call, first, result, separators, last_inserted,
                   left, right, next_free_position, tasks, merging_pass_number,
                   i, left_iterator, middle_iterator, ub>>

----------------------------------------------------------------------------
(* Undefined behaviour may also end the process.                           *)

\* The task t reads behind arrays.end() or touches memory behind the buffer.
TaskUndefined(t) ==
    \/ /\ t.kind = "merge"
       /\ \/ t.b \notin 1..K
          \/ t.c + Len(At(t.a, t.wild)) + Len(At(t.b, t.wild)) > Len(result)
    \/ /\ t.kind = "fuse"
       /\ t.c > Len(result)

\* The next step of the orchestrating thread reads behind arrays.end(),
\* writes through separators.end(), or advances the end() of an empty
\* container (right = std::next(left) in first_round_merge).
StepUndefined ==
    \/ /\ pc = "first_round_merge"
       /\ K = 0
    \/ /\ pc = "first_round"
       /\ FirstRoundCondition
       /\ left + 1 \notin 1..K
    \/ /\ pc = "tail"
       /\ K % 2 = 1
       /\ \/ left \notin 1..K
          \/ last_inserted + 1 \notin 1..Len(separators)

Crash ==
    /\ pc \notin {"done", "crashed"}
    /\ StepUndefined \/ \E t \in tasks : TaskUndefined(t)
    /\ pc' = "crashed"
    /\ ub' = TRUE
    /\ UNCHANGED <<external, pass_start, arrays, comp, call, first, result, separators, last_inserted,
                   left, right, next_free_position, tasks, merging_pass_number,
                   i, left_iterator, middle_iterator>>

----------------------------------------------------------------------------
(* The caller merges the one-sequence collection holding the result:       *)
(* merge_arrays({merge_arrays(S)}).                                        *)

MergeAgain ==
    /\ pc = "done"
    /\ call = 1
    /\ first' = result
    /\ arrays' = <<result>>
    /\ call' = 2
    /\ pc' = "start"
    /\ result' = <<>>
    /\ separators' = <<>>
    /\ last_inserted' = 0
    /\ left' = 0
    /\ right' = 0
    /\ next_free_position' = 0
    /\ tasks' = NoTask
    /\ merging_pass_number' = 0
    /\ i' = 0
    /\ left_iterator' = 0
    /\ middle_iterator' = 0
    /\ ub' = FALSE
    /\ pass_start' = NoPass
    /\ UNCHANGED <<comp, external>>

----------------------------------------------------------------------------

Next ==
    \/ ReturnEmpty
    \/ CopySingle
    \/ MergeTwo
    \/ BeginFirstRound
    \/ FirstRoundSpawn
    \/ \E t \in tasks : RunPairMerge(t)
    \/ FirstRoundJoin
    \/ TailCopy
    \/ SkipTail
    \/ ComputePassNumber
    \/ BeginPass
    \/ FuseSpawn
    \/ \E t \in tasks : RunFusion(t)
    \/ EndPass
    \/ Return
    \/ Crash
    \/ MergeAgain

Spec == Init /\ [][Next]_vars

\* The steps of the call itself: of the orchestrating thread and of the
\* spawned tasks.
Progress ==
    \/ ReturnEmpty
    \/ CopySingle
    \/ MergeTwo
    \/ BeginFirstRound
    \/ FirstRoundSpawn
    \/ \E t \in tasks : RunPairMerge(t)
    \/ FirstRoundJoin
    \/ TailCopy
    \/ SkipTail
    \/ ComputePassNumber
    \/ BeginPass
    \/ FuseSpawn
    \/ \E t \in tasks : RunFusion(t)
    \/ EndPass
    \/ Return

\* The OpenMP runtime runs the thread and every spawned task: a step of the
\* call that stays possible is eventually taken.
FairSpec == Init /\ [][Next]_vars /\ WF_vars(Progress)

\* The calls of the tests on the kinds of outer collection: the same inputs
\* held in a vector, a deque, a list and a forward_list.
InitContainers ==
    /\ first = <<>>
    /\ external \in ExternalContainers
    /\ \E c \in Comparators, k \in 0..MaxK :
         \E raw \in Inputs(k, MaxContainerN, c) : Enter(Tag(raw), c, 1)

SpecContainers == InitContainers /\ [][Next]_vars

\* The calls with the default comparator on up to MaxWideK short sequences:
\* enough sequences for two in-place passes, the first with two fusions.
InitWide ==
    /\ first = <<>>
    /\ external = "vector"
    /\ \E k \in 0..MaxWideK :
         \E raw \in Inputs(k, MaxWideN, "less") : Enter(Tag(raw), "less", 1)

SpecWide == InitWide /\ [][Next]_vars

----------------------------------------------------------------------------
(* detail::first_round_merge(container, output, comp): the first round as  *)
(* a function of its own.  arrays is its container, result its output,     *)
(* which the caller has allocated with the summed length.                  *)

\* get_container_size(container): size(), or std::distance for a
\* forward_list
get_container_size(container) ==
    IF external = "forward_list" THEN distance(container) ELSE size(container)

\* A call of first_round_merge on k >= 0 sorted sequences.
InitFirstRound ==
    /\ first = <<>>
    /\ external = "vector"
    /\ \E c \in Comparators, k \in 0..MaxK :
         \E raw \in Inputs(k, MaxN, c) :
             Entry(Tag(raw), c, 1, "first_round_merge",
                   [j \in 1..SumLen(raw) |-> Default], <<>>)

\* The sizes, the separators, last_inserted, left and right.
EnterFirstRound ==
    /\ pc = "first_round_merge"
    /\ separators' =
         [j \in 1..SizeT(2 + block_separator_number_after_first_round(
                                 get_container_size(arrays))) |-> 0]
    /\ last_inserted' = 1
    /\ left' = 1
    /\ right' = 2
    /\ next_free_position' = 0
    /\ ub' = (ub \/ get_container_size(arrays) = 0)
    /\ pc' = "first_round"
    /\ UNCHANGED <<external, pass_start, arrays, comp, call, first, result, tasks,
                   merging_pass_number, i, left_iterator, middle_iterator>>

\* return separators
ReturnSeparators ==
    /\ pc = "passes"
    /\ pc' = "done"
    /\ UNCHANGED <<external, pass_start, arrays, comp, call, first, result, separators, last_inserted,
                   left, right, next_free_position, tasks, merging_pass_number,
                   i, left_iterator, middle_iterator, ub>>

NextFirstRound ==
    \/ EnterFirstRound
    \/ FirstRoundSpawn
    \/ \E t \in tasks : RunPairMerge(t)
    \/ FirstRoundJoin
    \/ TailCopy
    \/ SkipTail
    \/ ReturnSeparators
    \/ Crash

SpecFirstRound == InitFirstRound /\ [][NextFirstRound]_vars

----------------------------------------------------------------------------
(* detail::first_round_merge of detail/OpenMP/first_round_merge.h: the     *)
(* same function, but right is declared without an initialiser.            *)

\* What "decltype(left) right;" may hold when the loop condition first reads
\* it: 0 is an iterator into no container (the value-initialised iterator of
\* the standard library's classes), 1..K a sequence, End the end of the
\* container.
Indeterminate == 0..End

\* A call of the OpenMP first_round_merge on k >= 0 sorted sequences.
InitFirstRoundOpenMP ==
    /\ first = <<>>
    /\ external = "vector"
    /\ \E c \in Comparators, k \in 0..MaxK :
         \E raw \in Inputs(k, MaxN, c) :
             Entry(Tag(raw), c, 1, "first_round_merge_openmp",
                   [j \in 1..SumLen(raw) |-> Default], <<>>)

\* The sizes, the separators, last_inserted, left and the declaration of
\* right.  The loop condition reads right as soon as left is not the end,
\* that is for every k >= 1.
EnterFirstRoundOpenMP ==
    /\ pc = "first_round_merge_openmp"
    /\ separators' =
         [j \in 1..SizeT(2 + block_separator_number_after_first_round(
                                 get_container_size(arrays))) |-> 0]
    /\ last_inserted' = 1
    /\ left' = 1
    /\ right' \in Indeterminate
    /\ next_free_position' = 0
    /\ ub' = (ub \/ get_container_size(arrays) >= 1)
    /\ pc' = "first_round"
    /\ UNCHANGED <<external, pass_start, arrays, comp, call, first, result, tasks,
                   merging_pass_number, i, left_iterator, middle_iterator>>

NextFirstRoundOpenMP ==
    \/ EnterFirstRoundOpenMP
    \/ FirstRoundSpawn
    \/ \E t \in tasks : RunPairMerge(t)
    \/ FirstRoundJoin
    \/ TailCopy
    \/ SkipTail
    \/ ReturnSeparators
    \/ Crash

SpecFirstRoundOpenMP == InitFirstRoundOpenMP /\ [][NextFirstRoundOpenMP]_vars

----------------------------------------------------------------------------
(* detail::iterative_merge(separators, separators_size, comp): the passes  *)
(* as a function of their own, on a buffer of sorted runs.                 *)

\* The separators of the runs laid one behind the other: the start of each
\* run, and the end of the buffer.
SeparatorsOf(runs) ==
    [j \in 1..(Len(runs) + 1) |-> SumLen(SubSeq(runs, 1, j - 1))]

\* A call of iterative_merge on the separators of 1..MaxK sorted runs, with
\* the size of the list as separators_size.
InitIterative ==
    /\ first = <<>>
    /\ external = "vector"
    /\ \E c \in Comparators, r \in 1..MaxK :
         \E raw \in Inputs(r, MaxN, c) :
             Entry(<<>>, c, 1, "iterative_merge", Flatten(Tag(raw)),
                   SeparatorsOf(raw))

\* merging_pass_number{ceil(log2(separators_size))} and the for loop's i{0}
EnterIterativeMerge ==
    /\ pc = "iterative_merge"
    /\ merging_pass_number' = CeilLog2(Len(separators))
    /\ i' = 0
    /\ pc' = "pass_head"
    /\ UNCHANGED <<external, pass_start, arrays, comp, call, first, result, separators, last_inserted,
                   left, right, next_free_position, tasks, left_iterator,
                   middle_iterator, ub>>

NextIterative ==
    \/ EnterIterativeMerge
    \/ BeginPass
    \/ FuseSpawn
    \/ \E t \in tasks : RunFusion(t)
    \/ EndPass
    \/ Return

SpecIterative == InitIterative /\ [][NextIterative]_vars

----------------------------------------------------------------------------
(* Vocabulary of the properties.                                           *)

Returned == pc = "done" /\ call = 1

\* The call has ended, by returning or by the process dying.
Ended == pc \in {"done", "crashed"} /\ call = 1

Range(s) == {s[j] : j \in 1..Len(s)}

ValuesOf(s) == [j \in 1..Len(s) |-> s[j].v]

Count(e, s) == Cardinality({j \in 1..Len(s) : s[j] = e})

IsPermutation(s, t) ==
    /\ Len(s) = Len(t)
    /\ \A e \in Range(s) \cup Range(t) : Count(e, s) = Count(e, t)

IsSortedBy(c, s) == \A j \in 1..(Len(s) - 1) : ~ Comp(c, s[j + 1], s[j])

Equivalent(c, x, y) == ~ Comp(c, x, y) /\ ~ Comp(c, y, x)

\* x comes from an earlier sequence than y, or from an earlier position of
\* the same sequence.
OriginBefore(x, y) == x.src < y.src \/ (x.src = y.src /\ x.pos < y.pos)

Precedes(s, x, y) == \E m, n \in 1..Len(s) : m < n /\ s[m] = x /\ s[n] = y

\* The positions of the inputs, as pairs <<sequence, position>>.
InputPositions ==
    UNION { { <<s, p>> : p \in 1..Len(arrays[s]) } : s \in 1..Len(arrays) }

\* The reference: a two-way merge that emits the front of the first sequence
\* unless the front of the second is strictly before it.
RECURSIVE StableTwoWayMerge(_, _, _)
StableTwoWayMerge(x, y, c) ==
    IF Len(x) = 0 THEN y
    ELSE IF Len(y) = 0 THEN x
    ELSE IF Comp(c, y[1], x[1])
         THEN <<y[1]>> \o StableTwoWayMerge(x, SubSeq(y, 2, Len(y)), c)
         ELSE <<x[1]>> \o StableTwoWayMerge(SubSeq(x, 2, Len(x)), y, c)

\* The reference folded left to right over the first n sequences.
RECURSIVE FoldMerge(_, _, _)
FoldMerge(arrs, n, c) ==
    IF n = 0 THEN <<>>
    ELSE StableTwoWayMerge(FoldMerge(arrs, n - 1, c), arrs[n], c)

----------------------------------------------------------------------------
(* The same code with every task run to completion where it is spawned:    *)
(* the execution of the build without OpenMP, where the pragmas are        *)
(* ignored.  w is what a read behind arrays.end() yields.                  *)

\* The locals before the first-round loop, n being number_of_lists_to_merge.
AtSpawnStart(n) ==
    [result |-> Allocated,
     separators |->
         [j \in 1..SizeT(2 + block_separator_number_after_first_round(n))
             |-> 0],
     last_inserted |-> 1, left |-> 1, right |-> 2, next_free_position |-> 0]

\* The first-round loop, the merge done inside the iteration.
RECURSIVE FirstRoundAtSpawn(_, _)
FirstRoundAtSpawn(st, w) ==
    IF st.left # End /\ st.right # End
    THEN LET out == Merge(At(st.left, w), At(st.left + 1, w), comp)
         IN  FirstRoundAtSpawn(
                 [result |-> WriteAt(st.result, st.next_free_position, out),
                  separators |->
                      [st.separators EXCEPT ![st.last_inserted + 1] =
                          st.next_free_position + Len(out)],
                  last_inserted |-> st.last_inserted + 1,
                  left |-> st.left + 2,
                  right |-> st.left + 1,
                  next_free_position |->
                      st.next_free_position + Len(At(st.left, w))
                                            + Len(At(st.left + 1, w))], w)
    ELSE st

\* Step 5.3 on the locals the loop left.
TailAtSpawn(st, w, n) ==
    IF n % 2 = 1
    THEN LET dst == st.separators[st.last_inserted]
             src == At(st.left, w)
         IN  [st EXCEPT
                 !.result = copy(src, st.result, dst),
                 !.separators =
                     IF st.last_inserted + 1 \in 1..Len(st.separators)
                     THEN [st.separators EXCEPT
                              ![st.last_inserted + 1] = dst + Len(src)]
                     ELSE st.separators,
                 !.last_inserted = st.last_inserted + 1]
    ELSE st

\* The while loop of one pass from left_iterator on, the fusion done inside
\* the iteration.
RECURSIVE PassAtSpawn(_, _, _)
PassAtSpawn(buf, list, it) ==
    IF it + 1 # Len(list) + 1 /\ it + 2 # Len(list) + 1
    THEN PassAtSpawn(inplace_merge(buf, list[it], list[it + 1], list[it + 2],
                                   comp),
                     erase_after(list, it), it + 1)
    ELSE [result |-> buf, separators |-> list]

\* The for loop: n passes.
RECURSIVE PassesAtSpawn(_, _, _)
PassesAtSpawn(buf, list, n) ==
    IF n = 0 THEN [result |-> buf, separators |-> list]
    ELSE LET after == PassAtSpawn(buf, list, 1)
         IN  PassesAtSpawn(after.result, after.separators, n - 1)

\* The result of the call on arrays when number_of_lists_to_merge is n.
MergeAtSpawnOf(n, w) ==
    IF n = 0 THEN Allocated
    ELSE IF n = 1 THEN copy(arrays[1], Allocated, 0)
    ELSE IF n = 2 THEN WriteAt(Allocated, 0, Merge(arrays[1], arrays[2], "less"))
    ELSE LET st == TailAtSpawn(FirstRoundAtSpawn(AtSpawnStart(n), w), w, n)
         IN  PassesAtSpawn(st.result, st.separators,
                 CeilLog2(block_separator_number_after_first_round(n))).result

\* The result of the call on arrays.
MergeAtSpawn(w) == MergeAtSpawnOf(K, w)

----------------------------------------------------------------------------
(* The claims.                                                             *)

\* C1: when merge_arrays returns, the result is sorted under the comparator,
\* for every number k of sorted inputs.  Stated for the calls with the default
\* comparator that executed no undefined behaviour.
C1_ResultSorted ==
    (Returned /\ comp = "less" /\ ~ ub) => IsSortedBy(comp, result)

\* C2: the length of the returned sequence is the sum of the lengths of the
\* inputs (counted as the number of input positions).
C2_ResultLength ==
    pc = "done" => Len(result) = Cardinality(InputPositions)

C2_Witness ==
    /\ Returned
    /\ ~ ub
    /\ K >= 3
    /\ Len(result) >= 2
    /\ \E s \in 1..K : arrays[s] = <<>>

\* C3: every call returns, and what it returns is a permutation of the
\* concatenation of the inputs: every element occurs in the result as often
\* as in the inputs, none is lost, none is a default value or foreign.
C3_ResultPermutation ==
    (Ended /\ comp = "less")
        => (pc = "done" /\ IsPermutation(result, Flatten(arrays)))

\* C4: the merge is stable: of two equivalent elements, the one from the
\* earlier sequence, or from the earlier position of the same sequence, comes
\* first in the result.
C4_Stable ==
    Returned =>
        \A x, y \in Range(Flatten(arrays)) :
            (Equivalent(comp, x, y) /\ OriginBefore(x, y))
                => Precedes(result, x, y)

\* C5: the result is the left fold of the stable two-way merge over the
\* inputs, starting from the empty sequence, element for element (origins
\* included).  Stated for the calls with the default comparator that executed
\* no undefined behaviour.
C5_EqualsFold ==
    (Returned /\ comp = "less" /\ ~ ub)
        => result = FoldMerge(arrays, Len(arrays), comp)

\* C6: the call on [1.0, 3.0], [2.0, 2.0, 4.0], [0.5] returns
\* [0.5, 1.0, 2.0, 2.0, 3.0, 4.0] (all values doubled here), of length 6.
C6_Scenario ==
    (Ended /\ arrays = Scenario /\ comp = "less")
        => (pc = "done" /\ ValuesOf(result) = <<1, 2, 4, 4, 6, 8>>)

\* C7: with a comparator other than the default one, under which every input
\* is sorted, the result is sorted under that comparator, on every path.
C7_SuppliedComparator ==
    (Returned /\ comp # "less") => IsSortedBy(comp, result)

\* C8: for k = 2 the result is, element for element, the stable two-way merge
\* of sequence 0 with sequence 1 under the comparator of the call.
C8_TwoIsDirectMerge ==
    (Returned /\ K = 2) => result = StableTwoWayMerge(arrays[1], arrays[2], comp)

\* C9: for k = 1 the result is an exact copy of the single input, and so the
\* call on the one-sequence collection holding a result returns that result.
C9_CopyIdempotent ==
    /\ (pc = "done" /\ K = 1) => result = arrays[1]
    /\ (pc = "done" /\ call = 2) => result = first

C9_Witness ==
    /\ pc = "done"
    /\ call = 2
    /\ Len(first) >= 2
    /\ result = first

\* C10: when some of the inputs are empty, the result still has the summed
\* length and is sorted; two inputs of which the first is empty give the
\* second; inputs that are all empty give the empty result.  Stated for the
\* calls with the default comparator that executed no undefined behaviour.
C10_EmptyMembers ==
    (Returned /\ comp = "less" /\ ~ ub /\ \E s \in 1..K : arrays[s] = <<>>)
        => /\ Len(result) = Cardinality(InputPositions)
           /\ IsSortedBy(comp, result)
           /\ (K = 2 /\ arrays[1] = <<>>) => result = arrays[2]
           /\ (\A s \in 1..K : arrays[s] = <<>>) => result = <<>>

StrayWrite ==
    /\ pc = "tail"
    /\ pc' = "passes"
    /\ K % 2 = 1
    /\ last_inserted + 1 \notin 1..Len(separators)

\* C12: no step of a call modifies the inputs, and the only memory a step
\* writes is the output buffer and the separator list.
C12_Frame ==
    [][call' = call => (arrays' = arrays /\ ~ StrayWrite)]_vars

\* C13: the number of sequences is the same whether it is read with size()
\* or counted by a traversal, and the call returns the same result for an
\* outer vector, deque, list and forward_list: the one of the call that takes
\* the number with size().
C13_ContainerKinds ==
    /\ distance(arrays) = size(arrays)
    /\ number_of_lists_to_merge(arrays) = size(arrays)
    /\ Returned => \E w \in Wild : result = MergeAtSpawnOf(size(arrays), w)

C13_Witness ==
    /\ Returned
    /\ external = "forward_list"
    /\ number_of_lists_to_merge(arrays) = 2
    /\ Len(arrays[1]) = 1
    /\ Len(arrays[2]) = 1
    /\ IsSortedBy("less", result)

\* C14: for every k >= 3 the separator list holds exactly two entries when
\* the call returns, the start and the end of the output.  Stated for the
\* calls that executed no undefined behaviour.
C14_TwoSeparatorsLeft ==
    (Returned /\ K >= 3 /\ ~ ub) => Len(separators) = 2

\* C15: for every k >= 3 the number of in-place passes the call has executed
\* when it returns is ceil(log2(R)), R = ceil(k / 2) being the number of runs
\* the first round leaves.  Stated for the calls that executed no undefined
\* behaviour.
C15_PassNumber ==
    (Returned /\ K >= 3 /\ ~ ub)
        => i = CeilLog2(block_number_after_first_round(K))

\* C16: the first round spawns exactly floor(k / 2) pair merges, each reading
\* two adjacent sequences of the collection, and neither a task nor a step of
\* the loop or of the copy of the last sequence dereferences a position at or
\* behind the end of the collection or of the separator list.
C16_FirstRoundInBounds ==
    /\ \A t \in tasks :
         t.kind = "merge" => (t.b = t.a + 1 /\ t.a \in 1..K /\ t.b \in 1..K)
    /\ pc = "tail" => last_inserted - 1 = K \div 2
    /\ ~ StepUndefined

\* The summed length of the first n sequences.
PrefixLen(n) == SumLen(SubSeq(arrays, 1, n))

\* The region [lo, hi) of the output that the pair merge t writes.
RegionLo(t) == t.c

RegionHi(t) == t.c + Len(Merge(At(t.a, t.wild), At(t.b, t.wild), comp))

\* C17: the pair merge of the sequences 2i and 2i+1 writes at the offset that
\* is the summed length of the sequences before them, the summed length of
\* the two; the last sequence of an odd number is copied behind the pairs; the
\* regions are disjoint and contiguous and cover the output exactly.
C17_RegionLayout ==
    /\ \A t \in tasks :
         t.kind = "merge" =>
             /\ t.a \in 1..K /\ t.b \in 1..K
             /\ RegionLo(t) = PrefixLen(t.a - 1)
             /\ RegionHi(t) = PrefixLen(t.b)
             /\ RegionHi(t) <= Len(result)
    /\ \A t, u \in tasks :
         (t.kind = "merge" /\ u.kind = "merge" /\ t # u)
             => (RegionHi(t) <= RegionLo(u) \/ RegionHi(u) <= RegionLo(t))
    /\ (pc = "tail" /\ K % 2 = 1) =>
             /\ left = K
             /\ separators[last_inserted] = PrefixLen(K - 1)
    /\ pc = "tail" =>
             next_free_position + (IF K % 2 = 1 THEN Len(arrays[K]) ELSE 0)
                 = Len(result)

\* ceil(k / 2): the number of regions the first round writes.
Regions == (K \div 2) + (K % 2)

\* The end of the j-th region: the summed length of the sequences of the
\* first j pairs (of all the sequences for the last region).
RegionEnd(j) == PrefixLen(IF 2 * j <= K THEN 2 * j ELSE K)

\* C18: for k >= 1 first_round_merge returns, and the list it returns has
\* ceil(k / 2) + 1 entries: the start of the output, then the end of each
\* region in turn, the last being the end of the output.
C18_FirstRoundSeparators ==
    (K >= 1 /\ pc \in {"done", "crashed"}) =>
        /\ pc = "done"
        /\ Len(separators) = Regions + 1
        /\ separators[1] = 0
        /\ \A j \in 1..Regions : separators[j + 1] = RegionEnd(j)
        /\ separators[Len(separators)] = Len(result)

\* No task is running and the round is over: the first round with its copy
\* of the last sequence, or a pass with its taskwait.
AtBarrier ==
    /\ pc \in {"passes", "pass_head", "done"}
    /\ K >= 3
    /\ tasks = NoTask

\* C19: whenever no task is running, after the first round and after each
\* pass, the separators are non-decreasing, the first is the start of the
\* output, the last is its end, and the output between two neighbouring
\* separators is sorted under the comparator.
C19_RunsSorted ==
    AtBarrier =>
        /\ \A j \in 1..(Len(separators) - 1) : separators[j] <= separators[j + 1]
        /\ separators[1] = 0
        /\ separators[Len(separators)] = Len(result)
        /\ \A j \in 1..(Len(separators) - 1) :
             IsSortedBy(comp, Slice(result, separators[j], separators[j + 1]))

\* The number of runs the current pass found.
RunsAtPassStart == Len(pass_start.separators) - 1

\* The separators at the even positions (counted from 0) of the list the
\* pass found, and its last one.
KeptSeparators ==
    [j \in 1..((RunsAtPassStart + 1) \div 2 + 1) |->
        IF 2 * j - 1 <= Len(pass_start.separators)
        THEN pass_start.separators[2 * j - 1]
        ELSE pass_start.separators[Len(pass_start.separators)]]

\* C20: one pass over R runs spawns floor(R / 2) fusions, the j-th on the
\* separators 2j, 2j+1 and 2j+2 the pass found; it removes the separators at
\* the odd positions that have a right neighbour and so leaves the first, the
\* last and ceil(R / 2) runs, each sorted; a last run without partner is left
\* as it was.
C20_OnePass ==
    /\ pc = "pass_loop" =>
         \A t \in tasks :
             /\ t.kind = "fuse"
             /\ t.d \in 1..(RunsAtPassStart \div 2)
             /\ t.a = pass_start.separators[2 * t.d - 1]
             /\ t.b = pass_start.separators[2 * t.d]
             /\ t.c = pass_start.separators[2 * t.d + 1]
    /\ (pc = "pass_loop" /\ ~ PassCondition) =>
         /\ left_iterator - 1 = RunsAtPassStart \div 2
         /\ separators = KeptSeparators
         /\ Len(separators) - 1 = (RunsAtPassStart + 1) \div 2
    /\ (pc = "pass_head" /\ i >= 1) =>
         /\ separators = KeptSeparators
         /\ \A j \in 1..(Len(separators) - 1) :
              IsSortedBy(comp, Slice(result, separators[j], separators[j + 1]))
         /\ RunsAtPassStart % 2 = 1 =>
              Slice(result, separators[Len(separators) - 1], Len(result))
                  = Slice(pass_start.result,
                          separators[Len(separators) - 1], Len(result))

C20_Witness ==
    /\ pc = "pass_head"
    /\ i = 1
    /\ RunsAtPassStart = 5
    /\ Len(separators) = 4
    /\ Len(result) = 3
    /\ separators[3] = 2
    /\ result # pass_start.result

\* The region [TaskLo, TaskHi) of the output that the task t writes: the
\* output of a pair merge, the range of a fusion.
TaskLo(t) == IF t.kind = "merge" THEN RegionLo(t) ELSE t.a

TaskHi(t) == IF t.kind = "merge" THEN RegionHi(t) ELSE t.c

\* C21: the regions of the output that two spawned, unfinished tasks write
\* are disjoint, among the pair merges of the first round and among the
\* fusions of a pass, and the orchestrating thread writes the output (the
\* fast paths, the copy of the last sequence) only when no task is live.
C21_DisjointRegions ==
    /\ \A t, u \in tasks :
         t # u => (TaskHi(t) <= TaskLo(u) \/ TaskHi(u) <= TaskLo(t))
    /\ pc \in {"start", "tail"} => tasks = NoTask

C21_Witness ==
    \E t, u \in tasks :
        /\ t # u
        /\ t.kind = "fuse"
        /\ u.kind = "fuse"
        /\ TaskLo(t) < TaskHi(t)
        /\ TaskLo(u) < TaskHi(u)
        /\ TaskHi(t) <= TaskLo(u)

\* The task t is a fusion spawned in the current pass: its number is below
\* the cursor of the pass, and its triple is taken from the list the pass
\* found.
OfCurrentPass(t) ==
    /\ t.kind = "fuse"
    /\ t.d < left_iterator
    /\ 2 * t.d + 1 <= Len(pass_start.separators)
    /\ t.a = pass_start.separators[2 * t.d - 1]
    /\ t.b = pass_start.separators[2 * t.d]
    /\ t.c = pass_start.separators[2 * t.d + 1]

\* C22: a pass begins only when every fusion of the pass before it has
\* completed, and the call returns only when every fusion of the last pass
\* has completed: between two passes and at the return no task is live, and
\* within a pass every live task is a fusion of that pass.
C22_PassBarrier ==
    /\ pc \in {"pass_head", "done"} => tasks = NoTask
    /\ pc = "pass_loop" => \A t \in tasks : OfCurrentPass(t)

C22_Witness ==
    /\ pc = "pass_loop"
    /\ i = 1
    /\ ~ ub
    /\ tasks # NoTask
    /\ pass_start.result # Allocated

\* The first round is over for the orchestrating thread.
AfterFirstRound == pc \in {"passes", "pass_head", "pass_loop", "done"}

\* C23: the first round is left, and so the first fusion is spawned and the
\* call returns, only when every pair merge it spawned has completed and, for
\* an odd number of sequences, the copy of the last one has been done: one
\* separator assigned for each pair merge spawned and one for the copy.
C23_FirstRoundBarrier ==
    /\ (pc = "tail" \/ AfterFirstRound) =>
           \A t \in tasks : t.kind # "merge"
    /\ (AfterFirstRound /\ K >= 3) =>
           last_inserted = 1 + ((left - 1) \div 2) + (K % 2)

C23_Witness ==
    /\ pc = "pass_loop"
    /\ ~ ub
    /\ i = 0
    /\ Len(result) = 2
    /\ \E t \in tasks : t.kind = "fuse" /\ t.a < t.b /\ t.b < t.c

\* The step is the body of a worker task: a spawned task completes.
TaskStep == tasks' # tasks /\ tasks' \subseteq tasks

\* C24: the separator list is written only by the orchestrating thread: no
\* step of a worker task changes an entry or the length of the list.
C24_WorkersNeverWrite ==
    [][TaskStep => separators' = separators]_vars

\* C24, amended: a pair merge assigns one entry of the list, the one
\* last_inserted pointed at when it was spawned, with the end of its output,
\* and leaves the other entries and the length alone; a fusion leaves the
\* list alone and works on the three values copied to it.
C24_WorkersWriteOwnEntry ==
    [][TaskStep =>
          \E t \in tasks \ tasks' :
              IF t.kind = "merge"
              THEN /\ Len(separators') = Len(separators)
                   /\ separators'[t.d] = RegionHi(t)
                   /\ \A j \in 1..Len(separators) :
                        j # t.d => separators'[j] = separators[j]
              ELSE /\ separators' = separators
                   /\ result' = inplace_merge(result, t.a, t.b, t.c, comp)]_vars

C24_Witness ==
    /\ pc = "first_round"
    /\ ~ ub
    /\ \E t \in tasks : t.kind = "merge" /\ t.d = 2
    /\ separators[3] = 2
    /\ separators[2] = 0

\* C25: under fair scheduling every call eventually returns, for every
\* number of sequences.
C25_EventuallyReturns == <>(pc = "done")

\* C26: iterative_merge, called on the separators of sorted runs with the
\* size of the list as separators_size, returns with two separators, the
\* start and the end of the buffer, and the buffer sorted; a pass that finds
\* two separators changes neither the list nor the buffer.
C26_IterativeMerge ==
    /\ pc = "done" =>
         /\ separators = <<0, Len(result)>>
         /\ IsSortedBy(comp, result)
    /\ (pc = "pass_head" /\ i >= 1 /\ Len(pass_start.separators) = 2) =>
         /\ separators = pass_start.separators
         /\ result = pass_start.result

C26_Witness ==
    /\ pc = "done"
    /\ i = 3
    /\ Len(pass_start.separators) = 2
    /\ Len(result) = 3
    /\ result[1].src = 4

\* The in-place phase is running or about to run.
InPlacePhase == pc \in {"iterative_merge", "pass_head", "pass_loop"}

\* C27: when the in-place phase finds two separators and no live task, each
\* of its steps, whatever the number of passes, spawns no task, removes no
\* separator and leaves the buffer as it is.
C27_TwoSeparatorsNoOp ==
    [][(InPlacePhase /\ Len(separators) = 2 /\ tasks = NoTask)
          => (tasks' = NoTask /\ separators' = separators /\ result' = result)]_vars

C27_Witness ==
    /\ pc = "done"
    /\ i = 1
    /\ merging_pass_number = 1
    /\ pass_start.separators = <<0, 3>>
    /\ separators = <<0, 3>>
    /\ result = pass_start.result

\* A separator list has been constructed and no pass has erased from it.
ListConstructed == pc \in {"first_round", "tail", "passes"}

\* C28: a call on no sequence spawns no task, executes no undefined
\* behaviour and returns the empty output, and a separator list is never
\* sized with the wrapped count: a list is constructed only for k >= 1, with
\* ceil(k / 2) + 1 >= 2 entries.
C28_NoWrappedSize ==
    /\ K = 0 => (tasks = NoTask /\ ~ ub /\ pc # "crashed")
    /\ (K = 0 /\ pc = "done") => result = <<>>
    /\ ListConstructed =>
         /\ K >= 1
         /\ Len(separators) = Regions + 1
         /\ Len(separators) >= 2

\* The pair merge that assigns the entry j of the separators is spawned and
\* has not completed.
Pending(j) == \E t \in tasks : t.kind = "merge" /\ t.d = j

\* C29: in the first round each entry of the separators has at most one
\* writer: the first entry none, the entry j + 1 the merge of the j-th pair,
\* or the copy of the last sequence.  An entry keeps its initial value until
\* its writer has completed, the orchestrating thread moving last_inserted
\* without assigning, and holds the end of the writer's region afterwards; the
\* entries are read (by the copy, by the return, by the passes) only when no
\* pair merge is live.
C29_SingleWriter ==
    /\ \A t, u \in tasks :
         (t.kind = "merge" /\ u.kind = "merge" /\ t # u) => t.d # u.d
    /\ \A t \in tasks :
         t.kind = "merge" =>
             (t.d \in 2..Len(separators) /\ t.d = ((t.a + 1) \div 2) + 1)
    /\ pc = "first_round" =>
         /\ separators[1] = 0
         /\ \A j \in 2..Len(separators) :
              /\ (j > last_inserted \/ Pending(j)) => separators[j] = 0
              /\ (j <= last_inserted /\ ~ Pending(j) /\ 2 * (j - 1) <= K)
                     => separators[j] = PrefixLen(2 * (j - 1))
    /\ (pc = "tail" \/ AfterFirstRound) => ~ \E j \in 1..Len(separators) : Pending(j)
    /\ (pc = "passes" /\ K = 1) => separators = <<0, Len(result)>>

C29_Witness ==
    /\ pc = "first_round"
    /\ ~ ub
    /\ last_inserted = 3
    /\ Pending(3)
    /\ ~ Pending(2)
    /\ separators[2] = 1
    /\ separators[3] = 0
    /\ Len(arrays[3]) + Len(arrays[4]) = 2

\* C30: for an odd number of sequences the copy of the last one reads its
\* destination from the entry last_inserted points at, which holds the summed
\* length of the sequences before the last; it copies the last sequence to
\* the end of the output and assigns the next entry, the last of the list,
\* the end of the output.
C30_TrailingCopy ==
    /\ (pc = "tail" /\ K % 2 = 1) =>
         /\ left = K
         /\ last_inserted + 1 = Len(separators)
         /\ separators[last_inserted] = PrefixLen(K - 1)
    /\ (pc = "passes" /\ K % 2 = 1) =>
         /\ separators[Len(separators)] = Len(result)
         /\ Slice(result, PrefixLen(K - 1), Len(result)) = arrays[K]

----------------------------------------------------------------------------
\* What the first_round_merge that initialises right returns on arrays: its
\* loop and its copy on the locals of detail/first_round_merge.h, w being
\* what a read behind the container yields.
first_round_merge_initialised(w) ==
    TailAtSpawn(FirstRoundAtSpawn(AtSpawnStart(K), w), w, K)

\* C31: on k >= 1 sequences the first_round_merge that leaves right
\* uninitialised returns the output buffer and the separator list that the
\* first_round_merge that initialises right returns, and ends abnormally only
\* where that one can; on one sequence it spawns no pair-merge task and
\* returns <<start, end>> with the sequence copied to the output.
C31_SameAsInitialised ==
    /\ (K >= 1 /\ pc = "done") =>
         \E w \in Wild :
             /\ result = first_round_merge_initialised(w).result
             /\ separators = first_round_merge_initialised(w).separators
    /\ (K >= 1 /\ pc = "crashed") => (K >= 3 /\ K % 2 = 1)
    /\ (K = 1 /\ ListConstructed) => (tasks = NoTask /\ last_inserted <= 2)
    /\ (K = 1 /\ pc = "done") =>
         /\ separators = <<0, Len(result)>>
         /\ result = arrays[1]

====
